---- MODULE Spec2Model ----
(***************************************************************************)
(* The transaction engine of simple_automation                             *)
(* (src/simple_automation/transaction.py): one Transaction instance, the   *)
(* ActiveTransaction its scope creates, the CompletedTransaction stored as *)
(* result, and the report line finalize prints; and the registration and   *)
(* run phases of Manager.main (src/simple_automation/manager.py).          *)
(***************************************************************************)
EXTENDS Integers, Sequences, FiniteSets, TLC

VARIABLES
    pc,                  \* "new" | "body" | "leaving" | "exited": position of the with-statement
    transaction_context, \* Transaction.transaction_context: NoneV or ActiveV
    created,             \* number of ActiveTransaction objects constructed
    initial_state_dict,  \* ActiveTransaction.initial_state_dict
    final_state_dict,    \* ActiveTransaction.final_state_dict
    result,              \* ActiveTransaction.result
    last,                \* the call the step just taken made (NoCall: none)
    nInitial,            \* number of initial_state() calls that recorded a state
    nFinal,              \* number of final_state() calls that recorded a state
    completions,         \* number of success()/failure() calls that stored a result
    completedBy,         \* the call that stored the result, its reason and its **kwargs
    bodyExc,             \* the error the with-body ended with ("none": normal end)
    finalized,           \* number of finalize runs
    outcome,             \* what finalize did: "none" (not run) | "ok" | an error name
    carried,             \* the CompletedTransaction carried by the TransactionError
    stdout,              \* the fragments printed so far, one per print call
    scopeExc             \* the error that left the with-statement ("none": no error)

VARIABLES
    mpc,                  \* position of the Manager: "constructed" | "registering" |
                          \* "editing" | "selecting" | "running" | "inscript" | "done"
    accept_registrations, \* Manager.accept_registrations
    groups,               \* the keys of Manager.groups
    hosts,                \* the keys of Manager.hosts
    tasks,                \* the keys of Manager.tasks
    vaults,               \* the keys of Manager.vaults
    args,                 \* the parsed command line: hosts, scripts, edit_vault
    todo,                 \* the <<host, script>> runs main has still to start, in order
    ran,                  \* the <<host, script>> runs started so far
    txs,                  \* the <<host, script>> of every transaction started
    mlast,                \* the add_* call the step just taken made (NoAdd: none)
    mainError             \* the error that ended the try block of main ("none": none)

tvars == <<pc, transaction_context, created, initial_state_dict, final_state_dict,
           result, last, nInitial, nFinal, completions, completedBy, bodyExc, finalized,
           outcome, carried, stdout, scopeExc>>

mvars == <<mpc, accept_registrations, groups, hosts, tasks, vaults, args, todo, ran,
           txs, mlast, mainError>>

vars == <<tvars, mvars>>

-----------------------------------------------------------------------------
(* Python values.  A dict keeps its items in insertion order, as a sequence *)
(* of <<key, value>> pairs with distinct keys.                              *)

NoneV == [t |-> "none"]
BoolV(b) == [t |-> "bool", b |-> b]
StrV(s) == [t |-> "str", s |-> s]
DictV(items) == [t |-> "dict", items |-> items]
ActiveV == [t |-> "ActiveTransaction"]

\* d.keys() as a set
KeySet(d) == {d.items[i][1] : i \in DOMAIN d.items}

\* d[k]
GetItem(d, k) == d.items[CHOOSE i \in DOMAIN d.items : d.items[i][1] = k][2]

\* the mapping a dict denotes, without the insertion order
AsMap(d) == [k \in KeySet(d) |-> GetItem(d, k)]

\* x == y: dicts compare as mappings, everything else structurally
PyEq(x, y) ==
    IF x.t = "dict" /\ y.t = "dict" THEN AsMap(x) = AsMap(y) ELSE x = y

\* bool(x)
Truthy(x) ==
    CASE x.t = "none" -> FALSE
      [] x.t = "bool" -> x.b
      [] x.t = "str" -> x.s # ""
      [] x.t = "dict" -> x.items # <<>>
      [] OTHER -> TRUE

\* str(x), for the values a state dict holds
Str(x) ==
    CASE x.t = "none" -> "None"
      [] x.t = "bool" -> IF x.b THEN "True" ELSE "False"
      [] x.t = "str" -> x.s

-----------------------------------------------------------------------------
(* Inputs *)

\* how often the body records an initial and a final state
MaxRecord == 2

KeyNames == {"a", "b"}
Short == "644"
LongX == "0123456789abcdefX"
LongY == "0123456789abcdefY"
\* the values recorded under a key: "a" is a short string or one of two long
\* strings that agree in their first 16 characters, "b" is the short string
DVals(k) == IF k = "a" THEN {StrV(Short), StrV(LongX), StrV(LongY)} ELSE {StrV(Short)}
Reasons == {"denied", "conflict"}
Name == "copy"

KeySeqs ==
    {ks \in UNION {[1..n -> KeyNames] : n \in 0..Cardinality(KeyNames)} :
        \A i, j \in DOMAIN ks : i # j => ks[i] # ks[j]}

\* the keyword arguments of initial_state(**kwargs) / final_state(**kwargs)
Kwargs ==
    UNION {{DictV([i \in DOMAIN ks |-> <<ks[i], vs[i]>>]) :
               vs \in {f \in [DOMAIN ks -> DVals("a")] : \A i \in DOMAIN ks : f[i] \in DVals(ks[i])}} :
           ks \in KeySeqs}

\* **kwargs of success / failure / unchanged: no keyword or one keyword; the
\* parameter names "self" and "reason" cannot be passed this way.
ExtraNames == {"hash", "success", "failure_reason", "changed", "final_state"}
ExtraVals(n) ==
    CASE n = "hash" -> {BoolV(TRUE)}
      [] n = "final_state" -> {NoneV, BoolV(TRUE), DictV(<< <<"a", StrV(Short)>> >>)}
      [] OTHER -> {NoneV, BoolV(TRUE)}
NoExtra == [n \in {} |-> NoneV]
Extras == {NoExtra} \cup UNION {[{n} -> ExtraVals(n)] : n \in ExtraNames}

-----------------------------------------------------------------------------
(* CompletedTransaction *)

\* CompletedTransaction.__init__: the five attributes, then one setattr per
\* item of store, which replaces an attribute of the same name.
CompletedTransaction(transaction, success, store, failure_reason) ==
    LET core == [success |-> BoolV(success),
                 failure_reason |-> failure_reason,
                 initial_state |-> transaction.initial_state_dict,
                 final_state |-> transaction.final_state_dict,
                 changed |-> BoolV(~PyEq(transaction.initial_state_dict,
                                         transaction.final_state_dict))]
    IN  [t |-> "CompletedTransaction",
         attrs |-> [k \in DOMAIN core \cup DOMAIN store |->
                        IF k \in DOMAIN store THEN store[k] ELSE core[k]]]

\* the ActiveTransaction as CompletedTransaction.__init__ reads it
Self == [initial_state_dict |-> initial_state_dict,
         final_state_dict |-> final_state_dict]

-----------------------------------------------------------------------------
(* ActiveTransaction.finalize *)

DisplayLen == 16
\* stand-ins of one ASCII character each for the escape byte, the middle
\* dot, the ellipsis and the arrow of the source
Esc == "^"
Dot == "."
Ellipsis == "~"
Arrow == ">"

\* has x a keys() method
HasKeys(x) == x.t = "dict"

\* StateCheck accepting a final_state whose keys are only some of the keys
\* of initial_state
StateCheckSubset(res) ==
    CASE res.attrs.initial_state = NoneV -> "LogicError"
      [] res.attrs.initial_state # NoneV /\ res.attrs.final_state = NoneV -> "LogicError"
      [] OTHER ->
           IF ~HasKeys(res.attrs.initial_state) \/ ~HasKeys(res.attrs.final_state)
           THEN "AttributeError"
           ELSE IF ~(KeySet(res.attrs.final_state) \subseteq KeySet(res.attrs.initial_state))
                THEN "LogicError"
                ELSE "pass"

\* the checks of finalize on the two states of the result: the error
\* raised, or "pass"
StateCheck(res) ==
    CASE res.attrs.initial_state = NoneV -> "LogicError"
      [] res.attrs.initial_state # NoneV /\ res.attrs.final_state = NoneV -> "LogicError"
      [] OTHER ->
           IF ~HasKeys(res.attrs.initial_state) \/ ~HasKeys(res.attrs.final_state)
           THEN "AttributeError"
           ELSE IF KeySet(res.attrs.initial_state) # KeySet(res.attrs.final_state)
                THEN "LogicError"
                ELSE "pass"

\* ProtocolCheck raising the wrong error for a missing result
ProtocolCheckWrongError(res) ==
    IF res = NoneV THEN "TransactionError" ELSE StateCheck(res)

\* the checks at the head of finalize: the error raised, or "pass"
ProtocolCheck(res) ==
    IF res = NoneV THEN "LogicError" ELSE StateCheck(res)

StatusChar(res) ==
    IF Truthy(res.attrs.success)
    THEN IF Truthy(res.attrs.changed)
         THEN Esc \o "[32m+" \o Esc \o "[m"
         ELSE Esc \o "[34m" \o Dot \o Esc \o "[m"
    ELSE Esc \o "[1;31m!" \o Esc \o "[m"

\* str(v), cut to its first 16 characters plus an ellipsis when longer
Shorten(v) ==
    IF Len(Str(v)) > DisplayLen
    THEN SubSeq(Str(v), 1, DisplayLen) \o Ellipsis
    ELSE Str(v)

\* the fragment printed for the i-th item of final_state
Field(res, i) ==
    LET k == res.attrs.final_state.items[i][1]
        final_v == res.attrs.final_state.items[i][2]
        initial_v == GetItem(res.attrs.initial_state, k)
    IN  IF PyEq(initial_v, final_v)
        THEN "  " \o Esc \o "[37m" \o k \o ": " \o Shorten(initial_v)
                  \o " (unchanged)" \o Esc \o "[m"
        ELSE "  " \o Esc \o "[33m" \o k \o ": " \o Shorten(initial_v)
                  \o " " \o Arrow \o " " \o Shorten(final_v) \o Esc \o "[m"

\* the print calls of finalize, in order; the last one ends the line
Report(res, name) ==
    <<"[" \o StatusChar(res) \o "] " \o name>>
    \o [i \in DOMAIN res.attrs.final_state.items |-> Field(res, i)]
    \o <<"\n">>

\* ReportAndRaise raising the TransactionError before the report is printed
RaiseBeforeReport(res, name) ==
    IF ~Truthy(res.attrs.success)
    THEN [raised |-> "TransactionError", printed |-> <<>>, carried |-> res]
    ELSE [raised |-> "none", printed |-> Report(res, name), carried |-> NoneV]

\* finalize after its checks: the report line, then the TransactionError of
\* a result that is not a success
ReportAndRaise(res, name) ==
    IF ~Truthy(res.attrs.success)
    THEN [raised |-> "TransactionError", printed |-> Report(res, name), carried |-> res]
    ELSE [raised |-> "none", printed |-> Report(res, name), carried |-> NoneV]

\* finalize: the error it raises ("none": it returns), what it prints and
\* the CompletedTransaction the TransactionError carries
Finalize(res, name) ==
    IF ProtocolCheck(res) # "pass"
    THEN [raised |-> ProtocolCheck(res), printed |-> <<>>, carried |-> NoneV]
    ELSE ReportAndRaise(res, name)

-----------------------------------------------------------------------------
(* Calls *)

\* op: the method called; done: the result was set before the call (for
\* "enter": the Transaction had been entered before); raised: the error raised
NoCall == [op |-> "none", done |-> FALSE, raised |-> "none"]
NotCompleted == [op |-> "none", reason |-> NoneV, store |-> NoExtra]

\* a call made in the with-body returned
Returned(op) ==
    /\ last' = [op |-> op, done |-> result # NoneV, raised |-> "none"]
    /\ UNCHANGED <<pc, bodyExc>>

\* a call made in the with-body raised e: the body catches it and goes on,
\* or the error ends the body
Raised(op, e) ==
    /\ last' = [op |-> op, done |-> result # NoneV, raised |-> e]
    /\ \E caught \in BOOLEAN :
          IF caught
          THEN UNCHANGED <<pc, bodyExc>>
          ELSE pc' = "leaving" /\ bodyExc' = e

\* __enter__ without its guard
EnterNeverRaises(tc) == FALSE

\* Transaction.__enter__: does it raise
EnterRaises(tc) == tc # NoneV

\* ActiveTransaction.initial_state / final_state: do they raise
AlterRaises(res) == res # NoneV

\* success without its guard
SuccessNeverRaises(res) == FALSE

\* ActiveTransaction.success / failure: do they raise
SuccessRaises(res) == res # NoneV
FailureRaises(res) == res # NoneV

\* the Transaction before its scope is entered
TInit ==
    /\ pc = "new"
    /\ transaction_context = NoneV
    /\ created = 0
    /\ initial_state_dict = NoneV
    /\ final_state_dict = NoneV
    /\ result = NoneV
    /\ last = NoCall
    /\ nInitial = 0
    /\ nFinal = 0
    /\ completions = 0
    /\ completedBy = NotCompleted
    /\ bodyExc = "none"
    /\ finalized = 0
    /\ outcome = "notrun"
    /\ carried = NoneV
    /\ stdout = <<>>
    /\ scopeExc = "none"

\* the arguments before parse_args
NoArgs == [hosts |-> NoneV, scripts |-> "", edit_vault |-> NoneV]

\* no add_* call; closed: registrations were no longer accepted at the call
NoAdd == [op |-> "none", closed |-> FALSE, raised |-> "none"]

\* Manager.__init__
MInit ==
    /\ mpc = "constructed"
    /\ accept_registrations = TRUE
    /\ groups = {}
    /\ hosts = {}
    /\ tasks = {}
    /\ vaults = {}
    /\ args = NoArgs
    /\ todo = <<>>
    /\ ran = <<>>
    /\ txs = <<>>
    /\ mlast = NoAdd
    /\ mainError = "none"

Init == TInit /\ MInit

\* with transaction as tr: (Transaction.__enter__), also a second time
Enter ==
    /\ pc \in {"new", "body", "exited"}
    /\ IF EnterRaises(transaction_context)
       THEN /\ last' = [op |-> "enter", done |-> transaction_context # NoneV,
                         raised |-> "LogicError"]
            /\ IF pc = "body"
               THEN \E caught \in BOOLEAN :
                       IF caught
                       THEN UNCHANGED <<pc, bodyExc>>
                       ELSE pc' = "leaving" /\ bodyExc' = "LogicError"
               ELSE UNCHANGED <<pc, bodyExc>>
            /\ UNCHANGED <<transaction_context, created, initial_state_dict,
                           final_state_dict, result, nInitial, nFinal>>
       ELSE /\ transaction_context' = ActiveV
            /\ created' = created + 1
            /\ initial_state_dict' = NoneV
            /\ final_state_dict' = NoneV
            /\ result' = NoneV
            /\ nInitial' = 0
            /\ nFinal' = 0
            /\ last' = [op |-> "enter", done |-> transaction_context # NoneV,
                         raised |-> "none"]
            /\ pc' = "body"
            /\ bodyExc' = "none"
    /\ UNCHANGED <<completions, completedBy, finalized, outcome, carried, stdout,
                   scopeExc>>

\* initial_state refusing to record a second time
InitialStateOnce(kw) ==
    /\ pc = "body"
    /\ nInitial < MaxRecord
    /\ IF AlterRaises(result) \/ initial_state_dict # NoneV
       THEN Raised("initial_state", "LogicError") /\ UNCHANGED <<initial_state_dict, nInitial>>
       ELSE Returned("initial_state") /\ initial_state_dict' = kw /\ nInitial' = nInitial + 1
    /\ UNCHANGED <<transaction_context, created, final_state_dict, result, nFinal,
                   completions, completedBy, finalized, outcome, carried, stdout, scopeExc>>

\* tr.initial_state(**kw)
InitialState(kw) ==
    /\ pc = "body"
    /\ nInitial < MaxRecord
    /\ IF AlterRaises(result)
       THEN Raised("initial_state", "LogicError") /\ UNCHANGED <<initial_state_dict, nInitial>>
       ELSE Returned("initial_state") /\ initial_state_dict' = kw /\ nInitial' = nInitial + 1
    /\ UNCHANGED <<transaction_context, created, final_state_dict, result, nFinal,
                   completions, completedBy, finalized, outcome, carried, stdout, scopeExc>>

\* tr.final_state(**kw)
FinalState(kw) ==
    /\ pc = "body"
    /\ nFinal < MaxRecord
    /\ IF AlterRaises(result)
       THEN Raised("final_state", "LogicError") /\ UNCHANGED <<final_state_dict, nFinal>>
       ELSE Returned("final_state") /\ final_state_dict' = kw /\ nFinal' = nFinal + 1
    /\ UNCHANGED <<transaction_context, created, initial_state_dict, result, nInitial,
                   completions, completedBy, finalized, outcome, carried, stdout, scopeExc>>

\* tr.success(**extra)
Success(extra) ==
    /\ pc = "body"
    /\ IF SuccessRaises(result)
       THEN Raised("success", "LogicError") /\ UNCHANGED <<result, completions, completedBy>>
       ELSE /\ Returned("success")
            /\ completedBy' = [op |-> "success", reason |-> NoneV, store |-> extra]
            /\ result' = CompletedTransaction(Self, TRUE, extra, NoneV)
            /\ completions' = completions + 1
    /\ UNCHANGED <<transaction_context, created, initial_state_dict, final_state_dict,
                   nInitial, nFinal, finalized, outcome, carried, stdout, scopeExc>>

\* tr.failure(reason, **extra)
Failure(reason, extra) ==
    /\ pc = "body"
    /\ IF FailureRaises(result)
       THEN Raised("failure", "LogicError") /\ UNCHANGED <<result, completions, completedBy>>
       ELSE /\ Returned("failure")
            /\ completedBy' = [op |-> "failure", reason |-> StrV(reason), store |-> extra]
            /\ result' = CompletedTransaction(Self, FALSE, extra, StrV(reason))
            /\ completions' = completions + 1
    /\ UNCHANGED <<transaction_context, created, initial_state_dict, final_state_dict,
                   nInitial, nFinal, finalized, outcome, carried, stdout, scopeExc>>

\* what tr.unchanged(**extra) raises: **None is a TypeError, then the guard
\* of final_state; success() is reached with result still None
UnchangedRaises(initial, res) ==
    IF initial = NoneV THEN "TypeError"
    ELSE IF AlterRaises(res) THEN "LogicError"
    ELSE "none"

\* tr.unchanged(**extra): final_state(**initial_state_dict), then success()
\* without the extra keywords
Unchanged(extra) ==
    /\ pc = "body"
    /\ IF UnchangedRaises(initial_state_dict, result) # "none"
       THEN /\ Raised("unchanged", UnchangedRaises(initial_state_dict, result))
            /\ UNCHANGED <<final_state_dict, nFinal, result, completions, completedBy>>
       ELSE /\ Returned("unchanged")
            /\ completedBy' = [op |-> "unchanged", reason |-> NoneV, store |-> extra]
            /\ final_state_dict' = initial_state_dict
            /\ nFinal' = nFinal + 1
            /\ result' = CompletedTransaction(
                             [initial_state_dict |-> initial_state_dict,
                              final_state_dict |-> initial_state_dict],
                             TRUE, NoExtra, NoneV)
            /\ completions' = completions + 1
    /\ UNCHANGED <<transaction_context, created, initial_state_dict, nInitial,
                   finalized, outcome, carried, stdout, scopeExc>>

\* the with-body ends normally
BodyReturn ==
    /\ pc = "body"
    /\ pc' = "leaving"
    /\ bodyExc' = "none"
    /\ last' = NoCall
    /\ UNCHANGED <<transaction_context, created, initial_state_dict, final_state_dict,
                   result, nInitial, nFinal, completions, completedBy, finalized,
                   outcome, carried, stdout, scopeExc>>

\* the with-body raises an error of its own (a failed remote command)
BodyRaise ==
    /\ pc = "body"
    /\ pc' = "leaving"
    /\ bodyExc' = "RemoteExecError"
    /\ last' = NoCall
    /\ UNCHANGED <<transaction_context, created, initial_state_dict, final_state_dict,
                   result, nInitial, nFinal, completions, completedBy, finalized,
                   outcome, carried, stdout, scopeExc>>

\* CallFinalize letting the body's error win over the error of finalize
CallFinalizeKeepsBodyError ==
    /\ LET f == Finalize(result, Name)
       IN  /\ outcome' = IF f.raised = "none" THEN "ok" ELSE f.raised
           /\ stdout' = stdout \o f.printed
           /\ carried' = f.carried
           /\ scopeExc' = IF bodyExc # "none" THEN bodyExc ELSE f.raised
    /\ finalized' = finalized + 1

\* CallFinalize with __exit__ returning True: the body's error is dropped
CallFinalizeSwallows ==
    /\ LET f == Finalize(result, Name)
       IN  /\ outcome' = IF f.raised = "none" THEN "ok" ELSE f.raised
           /\ stdout' = stdout \o f.printed
           /\ carried' = f.carried
           /\ scopeExc' = f.raised
    /\ finalized' = finalized + 1

\* self.transaction_context.finalize(self.context, self): an error of
\* finalize replaces the body's, otherwise __exit__ returns None and the
\* body's error goes on
CallFinalize ==
    /\ LET f == Finalize(result, Name)
       IN  /\ outcome' = IF f.raised = "none" THEN "ok" ELSE f.raised
           /\ stdout' = stdout \o f.printed
           /\ carried' = f.carried
           /\ scopeExc' = IF f.raised # "none" THEN f.raised ELSE bodyExc
    /\ finalized' = finalized + 1

\* __exit__ finalizing only when the body ended without an error
ExitSkipsOnError ==
    /\ pc = "leaving"
    /\ IF bodyExc = "none"
       THEN CallFinalize
       ELSE scopeExc' = bodyExc /\ UNCHANGED <<outcome, stdout, carried, finalized>>
    /\ pc' = "exited"
    /\ last' = NoCall
    /\ UNCHANGED <<transaction_context, created, initial_state_dict, final_state_dict,
                   result, nInitial, nFinal, completions, completedBy, bodyExc>>

\* the final state of res with every value replaced by its display form
ShortenedFinal(res) ==
    DictV([i \in DOMAIN res.attrs.final_state.items |->
              <<res.attrs.final_state.items[i][1],
                StrV(Shorten(res.attrs.final_state.items[i][2]))>>])

\* __exit__ whose finalize stores the display forms back into the result
ExitShortensInPlace ==
    /\ pc = "leaving"
    /\ CallFinalize
    /\ pc' = "exited"
    /\ last' = NoCall
    /\ result' = IF ProtocolCheck(result) = "pass"
                 THEN [result EXCEPT !.attrs.final_state = ShortenedFinal(result)]
                 ELSE result
    /\ UNCHANGED <<transaction_context, created, initial_state_dict, final_state_dict,
                   nInitial, nFinal, completions, completedBy, bodyExc>>

\* Transaction.__exit__: finalize, whatever the body ended with
Exit ==
    /\ pc = "leaving"
    /\ CallFinalize
    /\ pc' = "exited"
    /\ last' = NoCall
    /\ UNCHANGED <<transaction_context, created, initial_state_dict, final_state_dict,
                   result, nInitial, nFinal, completions, completedBy, bodyExc>>

Next ==
    \/ Enter /\ UNCHANGED mvars
    \/ \E kw \in Kwargs : InitialState(kw) /\ UNCHANGED mvars
    \/ \E kw \in Kwargs : FinalState(kw) /\ UNCHANGED mvars
    \/ \E extra \in Extras : Success(extra) /\ UNCHANGED mvars
    \/ \E reason \in Reasons, extra \in Extras : Failure(reason, extra) /\ UNCHANGED mvars
    \/ \E extra \in Extras : Unchanged(extra) /\ UNCHANGED mvars
    \/ BodyReturn /\ UNCHANGED mvars
    \/ BodyRaise /\ UNCHANGED mvars
    \/ Exit /\ UNCHANGED mvars

\* one Transaction scope
Spec == Init /\ [][Next]_vars

-----------------------------------------------------------------------------
(* Manager *)

\* the identifiers the inventory registers; all are valid keys
GroupIds == {"g1"}
HostIds == {"h1", "h2"}
TaskIds == {"t1"}
VaultFiles == {"v1"}

\* the values of --hosts (None: not given), --scripts and --edit-vault
HostArgs == {NoneV, StrV("h1"), StrV("h2,h1"), StrV("h1,h1"), StrV("h1,hx"), StrV("hx,h2")}
ScriptArgs == {"run", "run,check"}
EditArgs == {NoneV, StrV("v1")}

\* the positions of the commas of s
Commas(s) == {i \in 1..Len(s) : SubSeq(s, i, i) = ","}

\* the position of the k-th comma of s; 0 before the first piece and
\* Len(s) + 1 after the last one
CommaAt(s, k) ==
    IF k = 0 THEN 0
    ELSE IF k > Cardinality(Commas(s)) THEN Len(s) + 1
    ELSE CHOOSE i \in Commas(s) : Cardinality({j \in Commas(s) : j < i}) = k - 1

\* s.split(',')
Split(s) ==
    [k \in 1..(Cardinality(Commas(s)) + 1) |->
        SubSeq(s, CommaAt(s, k - 1) + 1, CommaAt(s, k) - 1)]

\* the order of Host objects under sorted(): by identifier
HostBefore(a, b) ==
    \/ a = "h1" /\ b = "h2"

\* sorted(hs) for a sequence hs of hosts: a host named twice stays twice
SortedWithRepeats(hs) ==
    LET S == {hs[i] : i \in DOMAIN hs}
    IN  CHOOSE q \in [1..Len(hs) -> S] :
            /\ \A x \in S : Cardinality({i \in DOMAIN q : q[i] = x})
                              = Cardinality({i \in DOMAIN hs : hs[i] = x})
            /\ \A i, j \in DOMAIN q : i < j => ~HostBefore(q[j], q[i])

\* sorted(set(hs)) for a sequence hs of hosts
SortedSet(hs) ==
    LET S == {hs[i] : i \in DOMAIN hs}
    IN  CHOOSE q \in [1..Cardinality(S) -> S] :
            /\ \A i, j \in DOMAIN q : i # j => q[i] # q[j]
            /\ \A i, j \in DOMAIN q : i < j => HostBefore(q[i], q[j])

\* the runs of the two nested loops of main: every script on the first
\* host, then every script on the next
Runs(hs, scripts) ==
    [n \in 1..(Len(hs) * Len(scripts)) |->
        <<hs[((n - 1) \div Len(scripts)) + 1], scripts[((n - 1) % Len(scripts)) + 1]>>]

\* the names main looks up: the pieces of --hosts, or every registered host
Requested(a, registered) ==
    IF a.hosts = NoneV
    THEN SortedSet(CHOOSE q \in [1..Cardinality(registered) -> registered] :
                       \A i, j \in DOMAIN q : i # j => q[i] # q[j])
    ELSE Split(a.hosts.s)

\* is the inventory's code running, called from main
InMain == mpc \in {"registering", "editing", "inscript"}

\* an add_* call returned
MReturned(op) ==
    /\ mlast' = [op |-> op, closed |-> ~accept_registrations, raised |-> "none"]
    /\ UNCHANGED <<mpc, mainError>>

\* an add_* call raised e: the inventory's code catches it and goes on, or
\* e leaves the try block of main, which ends main
MRaised(op, e) ==
    /\ mlast' = [op |-> op, closed |-> ~accept_registrations, raised |-> e]
    /\ \E caught \in BOOLEAN :
          IF caught \/ ~InMain
          THEN UNCHANGED <<mpc, mainError>>
          ELSE mpc' = "done" /\ mainError' = e

\* add_task without the guard of the registration phase
AddTaskNeverRefused(accept) == FALSE

\* the first statement of add_group / add_host / add_task / add_vault: is
\* the registration refused
AddGroupRefused(accept) == ~accept
AddHostRefused(accept) == ~accept
AddTaskRefused(accept) == ~accept
AddVaultRefused(accept) == ~accept

\* can the inventory's code call the Manager
CanCall == mpc \in {"constructed", "registering", "editing", "inscript"}

\* manager.add_group(id)
AddGroup(id) ==
    /\ CanCall
    /\ IF AddGroupRefused(accept_registrations) \/ id \in groups
       THEN MRaised("add_group", "LogicError") /\ UNCHANGED groups
       ELSE MReturned("add_group") /\ groups' = groups \cup {id}
    /\ UNCHANGED <<accept_registrations, hosts, tasks, vaults, args, todo, ran, txs>>
    /\ UNCHANGED tvars

\* manager.add_host(id, ssh_host)
AddHost(id) ==
    /\ CanCall
    /\ IF AddHostRefused(accept_registrations) \/ id \in hosts
       THEN MRaised("add_host", "LogicError") /\ UNCHANGED hosts
       ELSE MReturned("add_host") /\ hosts' = hosts \cup {id}
    /\ UNCHANGED <<accept_registrations, groups, tasks, vaults, args, todo, ran, txs>>
    /\ UNCHANGED tvars

\* manager.add_task(task_class), id the identifier of the class
AddTask(id) ==
    /\ CanCall
    /\ IF AddTaskRefused(accept_registrations) \/ id \in tasks
       THEN MRaised("add_task", "LogicError") /\ UNCHANGED tasks
       ELSE MReturned("add_task") /\ tasks' = tasks \cup {id}
    /\ UNCHANGED <<accept_registrations, groups, hosts, vaults, args, todo, ran, txs>>
    /\ UNCHANGED tvars

\* manager.add_vault(vault_class, file), file as its canonical path
AddVault(file) ==
    /\ CanCall
    /\ IF AddVaultRefused(accept_registrations) \/ file \in vaults
       THEN MRaised("add_vault", "LogicError") /\ UNCHANGED vaults
       ELSE MReturned("add_vault") /\ vaults' = vaults \cup {file}
    /\ UNCHANGED <<accept_registrations, groups, hosts, tasks, args, todo, ran, txs>>
    /\ UNCHANGED tvars

\* main up to the first call into the inventory: parse_args, then the
\* branch on --edit-vault
MainStart(h, sc, e) ==
    /\ mpc = "constructed"
    /\ args' = [hosts |-> h, scripts |-> sc, edit_vault |-> e]
    /\ mpc' = IF e # NoneV THEN "editing" ELSE "registering"
    /\ mlast' = NoAdd
    /\ UNCHANGED <<accept_registrations, groups, hosts, tasks, vaults, todo, ran,
                   txs, mainError>>
    /\ UNCHANGED tvars

\* main after register_vaults under --edit-vault: the vault is looked up
\* and edited, or MessageError is raised and reported
EditVault ==
    /\ mpc = "editing"
    /\ mainError' = IF args.edit_vault.s \in vaults THEN "none" ELSE "MessageError"
    /\ mpc' = "done"
    /\ mlast' = NoAdd
    /\ UNCHANGED <<accept_registrations, groups, hosts, tasks, vaults, args, todo, ran, txs>>
    /\ UNCHANGED tvars

\* main after the inventory has registered everything: registrations are
\* no longer accepted
CloseRegistrations ==
    /\ mpc = "registering"
    /\ accept_registrations' = FALSE
    /\ mpc' = "selecting"
    /\ mlast' = NoAdd
    /\ UNCHANGED <<groups, hosts, tasks, vaults, args, todo, ran, txs, mainError>>
    /\ UNCHANGED tvars

\* main checking the host selection: an unknown name raises MessageError,
\* which is reported and ends main; otherwise the selected hosts are sorted
SelectHosts ==
    /\ mpc = "selecting"
    /\ LET names == Requested(args, hosts)
       IN  IF \E i \in DOMAIN names : names[i] \notin hosts
           THEN mpc' = "done" /\ mainError' = "MessageError" /\ todo' = <<>>
           ELSE /\ todo' = Runs(SortedSet(names), Split(args.scripts))
                /\ mpc' = IF todo' = <<>> THEN "done" ELSE "running"
                /\ mainError' = "none"
    /\ mlast' = NoAdd
    /\ UNCHANGED <<accept_registrations, groups, hosts, tasks, vaults, args, ran, txs>>
    /\ UNCHANGED tvars

\* main calling the next script of the inventory on the next host
StartScript ==
    /\ mpc = "running"
    /\ ran' = Append(ran, Head(todo))
    /\ todo' = Tail(todo)
    /\ mpc' = "inscript"
    /\ mlast' = NoAdd
    /\ UNCHANGED <<accept_registrations, groups, hosts, tasks, vaults, args, txs,
                   mainError>>
    /\ UNCHANGED tvars

\* the number of transactions the scripts of one run of main start, at most
MaxTx == 2

\* the script running on the host runs a task, which enters a transaction
StartTransaction ==
    /\ mpc = "inscript"
    /\ Len(txs) < MaxTx
    /\ txs' = Append(txs, ran[Len(ran)])
    /\ mlast' = NoAdd
    /\ UNCHANGED <<mpc, accept_registrations, groups, hosts, tasks, vaults, args, todo,
                   ran, mainError>>
    /\ UNCHANGED tvars

\* has the script that is running started a transaction
InTransaction == \E i \in DOMAIN txs : txs[i] = ran[Len(ran)]

\* main with a handler inside the loop over the hosts: after an error of a
\* script the next run is started
EndScriptHandledInLoop(e) ==
    /\ mpc = "inscript"
    /\ e = "TransactionError" => InTransaction
    /\ mainError' = e
    /\ mpc' = IF todo # <<>> THEN "running" ELSE "done"
    /\ mlast' = NoAdd
    /\ UNCHANGED <<accept_registrations, groups, hosts, tasks, vaults, args, todo, ran, txs>>
    /\ UNCHANGED tvars

\* the script returns, or raises e (TransactionError: raised by the finalize
\* of a transaction it started), which leaves the Context and both loops of
\* main; the handlers of main are outside the loops
EndScript(e) ==
    /\ mpc = "inscript"
    /\ e = "TransactionError" => InTransaction
    /\ mainError' = e
    /\ mpc' = IF e = "none" /\ todo # <<>> THEN "running" ELSE "done"
    /\ mlast' = NoAdd
    /\ UNCHANGED <<accept_registrations, groups, hosts, tasks, vaults, args, todo, ran, txs>>
    /\ UNCHANGED tvars

ScriptErrors == {"none", "TransactionError", "LogicError"}

MNext ==
    \/ \E id \in GroupIds : AddGroup(id)
    \/ \E id \in HostIds : AddHost(id)
    \/ \E id \in TaskIds : AddTask(id)
    \/ \E file \in VaultFiles : AddVault(file)
    \/ \E h \in HostArgs, sc \in ScriptArgs, e \in EditArgs : MainStart(h, sc, e)
    \/ EditVault
    \/ CloseRegistrations
    \/ SelectHosts
    \/ StartScript
    \/ StartTransaction
    \/ \E e \in ScriptErrors : EndScript(e)

\* one run of Manager.main
SpecManager == Init /\ [][MNext]_vars

-----------------------------------------------------------------------------
(* Properties *)

\* number of lines ended on stdout
Lines(out) == Cardinality({i \in DOMAIN out : out[i] = "\n"})

\* the result passes the checks finalize makes: it is set, both its states
\* are set, and their key sets are equal
ChecksPass(res) ==
    /\ res # NoneV
    /\ HasKeys(res.attrs.initial_state)
    /\ HasKeys(res.attrs.final_state)
    /\ KeySet(res.attrs.initial_state) = KeySet(res.attrs.final_state)

\* C1: a call of success() or failure() made when the result was already set
\* raised LogicError, and the result has been stored at most once.
C1_AtMostOnceCompletion ==
    /\ completions <= 1
    /\ (last.op \in {"success", "failure"} /\ last.done) => last.raised = "LogicError"

\* C1 witness: failure() was called on a transaction that success() had
\* completed, and raised LogicError
C1_Witness ==
    /\ last.op = "failure" /\ last.done /\ last.raised = "LogicError"
    /\ completedBy.op = "success"

\* C2: after the scope is left, finalize raised LogicError unless exactly one
\* completing call stored the result; with no result it raised LogicError
\* and that is the error leaving the scope.
C2_CompletedOrLogicError ==
    pc = "exited" =>
        /\ outcome # "LogicError" => completions = 1
        /\ result = NoneV => outcome = "LogicError" /\ scopeExc = "LogicError"

\* C2 witness: the body ended normally without a result and the scope ended
\* in LogicError
C2_Witness ==
    pc = "exited" /\ result = NoneV /\ bodyExc = "none" /\ scopeExc = "LogicError"

\* C3: when finalize returned or raised TransactionError, the two states of
\* the result have the same key set; a result whose two states have
\* different key sets made finalize raise LogicError.
C3_EqualKeySets ==
    pc = "exited" =>
        /\ outcome \in {"ok", "TransactionError"} =>
               /\ HasKeys(result.attrs.initial_state)
               /\ HasKeys(result.attrs.final_state)
               /\ KeySet(result.attrs.initial_state) = KeySet(result.attrs.final_state)
        /\ ( /\ result # NoneV
             /\ HasKeys(result.attrs.initial_state)
             /\ HasKeys(result.attrs.final_state)
             /\ KeySet(result.attrs.initial_state) # KeySet(result.attrs.final_state) )
             => outcome = "LogicError"

\* C3 witness: a transaction completed by failure() with key "b" dropped
\* from the final state ended in LogicError
C3_Witness ==
    /\ pc = "exited" /\ completedBy.op = "failure" /\ outcome = "LogicError"
    /\ result # NoneV
    /\ HasKeys(result.attrs.initial_state) /\ HasKeys(result.attrs.final_state)
    /\ KeySet(result.attrs.initial_state) = {"a", "b"}
    /\ KeySet(result.attrs.final_state) = {"a"}

\* C4: when the checks of finalize pass, a transaction completed by
\* failure(reason, **extra) ends in a TransactionError that carries the result,
\* with success False and failure_reason = reason; one completed by
\* success(**extra) ends without error from finalize.
C4_FailureRaisesSuccessReturns ==
    (pc = "exited" /\ ChecksPass(result)) =>
        /\ completedBy.op = "failure" =>
               /\ outcome = "TransactionError"
               /\ carried = result
               /\ result.attrs.success = BoolV(FALSE)
               /\ result.attrs.failure_reason = completedBy.reason
        /\ completedBy.op = "success" => outcome = "ok"

\* C5: a transaction completed by failure() with the initial or the final
\* state never recorded ends in LogicError, not in TransactionError.
C5_MissingStateIsLogicError ==
    ( /\ pc = "exited" /\ completedBy.op = "failure"
      /\ (initial_state_dict = NoneV \/ final_state_dict = NoneV) )
        => outcome = "LogicError"

\* C6: finalize has run exactly once when the scope has been left, and not
\* at all before.
C6_FinalizeExactlyOnce ==
    /\ pc = "exited" => finalized = 1
    /\ pc \in {"new", "body", "leaving"} => finalized = 0

\* C6 witness: the body raised an error of its own after the transaction
\* was completed, and finalize has run once
C6_Witness ==
    pc = "exited" /\ bodyExc = "RemoteExecError" /\ result # NoneV /\ finalized = 1

\* C7 as claimed: every scope that was entered and left has printed exactly
\* one report line.
C7_OneLinePerScope ==
    pc = "exited" => Lines(stdout) = 1

\* C7 amended: a scope that was left has printed exactly one report line
\* when finalize returned or raised TransactionError, and none when
\* finalize raised from its checks; nothing is printed before the scope is
\* left.
C7_OneLineIffChecksPass ==
    /\ pc = "exited" =>
           Lines(stdout) = IF outcome \in {"ok", "TransactionError"} THEN 1 ELSE 0
    /\ pc # "exited" => stdout = <<>>

\* C7 witness: a failed transaction raised TransactionError with its report
\* line printed
C7_Witness ==
    pc = "exited" /\ outcome = "TransactionError" /\ Lines(stdout) = 1
    /\ stdout[Len(stdout)] = "\n"

C9_UnchangedAlwaysYields ==
    (last.op = "unchanged" /\ ~last.done) =>
        /\ last.raised = "none"
        /\ result # NoneV
        /\ result.attrs.success = BoolV(TRUE)
        /\ result.attrs.changed = BoolV(FALSE)
        /\ result.attrs.final_state = initial_state_dict

\* C10: at most one ActiveTransaction is ever created, and an entry of a
\* Transaction that had been entered before raised LogicError.
C10_EnteredAtMostOnce ==
    /\ created <= 1
    /\ (last.op = "enter" /\ last.done) => last.raised = "LogicError"

\* C10 witness: the Transaction was entered again after its scope had been
\* left, which raised LogicError
C10_Witness ==
    /\ pc = "exited" /\ created = 1
    /\ last.op = "enter" /\ last.done /\ last.raised = "LogicError"

\* C10 witness, second case: the re-entry happened while the scope was open
C10_WitnessOpen ==
    /\ pc = "body" /\ created = 1
    /\ last.op = "enter" /\ last.done /\ last.raised = "LogicError"

\* does the string s contain the string sub
Contains(s, sub) ==
    \E i \in 1..(Len(s) - Len(sub) + 1) : SubSeq(s, i, i + Len(sub) - 1) = sub

\* finalize got past its checks and printed the report
Reported == pc = "exited" /\ outcome \in {"ok", "TransactionError"}

\* the methods of the ActiveTransaction that record or complete
AlterOps == {"initial_state", "final_state", "unchanged", "success", "failure"}

\* C11: a call of initial_state, final_state, unchanged, success or failure
\* made when the result is set raises LogicError and leaves
\* initial_state_dict, final_state_dict and result as they were.
C11_NoChangeAfterCompletion ==
    [][(result # NoneV /\ last'.op \in AlterOps) =>
           /\ last'.raised = "LogicError"
           /\ UNCHANGED <<initial_state_dict, final_state_dict, result>>]_vars

C13_ReasonIffFailure ==
    result # NoneV =>
        /\ (result.attrs.failure_reason # NoneV) <=> (result.attrs.success = BoolV(FALSE))
        /\ completedBy.op = "success" => result.attrs.failure_reason = NoneV
        /\ completedBy.op = "failure" =>
               /\ result.attrs.success = BoolV(FALSE)
               /\ result.attrs.failure_reason # NoneV

\* C14: when the body ended with an error and no result was set, finalize
\* raised LogicError and LogicError is the error leaving the scope.
C14_BodyErrorBecomesLogicError ==
    (pc = "exited" /\ bodyExc # "none" /\ result = NoneV) =>
        (outcome = "LogicError" /\ scopeExc = "LogicError")

\* C14 witness: a failed remote command ended the body before any
\* completion, and LogicError left the scope
C14_Witness ==
    /\ pc = "exited" /\ bodyExc = "RemoteExecError" /\ result = NoneV
    /\ nInitial = 1 /\ scopeExc = "LogicError"

\* the fragment printed for the i-th item of the final state
Fragment(i) == stdout[i + 1]
InitialValue(i) ==
    GetItem(result.attrs.initial_state, result.attrs.final_state.items[i][1])
FinalValue(i) == result.attrs.final_state.items[i][2]

\* the fields of the report: a field reads "(unchanged)" iff its two full
\* values are equal and shows an arrow otherwise, and no displayed value is
\* longer than 16 characters plus the ellipsis
RenderingFaithful ==
    Reported =>
        \A i \in DOMAIN result.attrs.final_state.items :
            /\ Contains(Fragment(i), "(unchanged)") <=> (InitialValue(i) = FinalValue(i))
            /\ Contains(Fragment(i), " " \o Arrow \o " ") <=> (InitialValue(i) # FinalValue(i))
            /\ Len(Str(FinalValue(i))) > DisplayLen =>
                   /\ ~Contains(Fragment(i), Str(FinalValue(i)))
                   /\ (InitialValue(i) # FinalValue(i)) =>
                          Contains(Fragment(i),
                                   SubSeq(Str(FinalValue(i)), 1, DisplayLen) \o Ellipsis \o Esc)

\* C15: the fields of the report are rendered from the full values as
\* above, and when a field is rendered as a change the changed attribute
\* of the result is true.
C15_TruncationKeepsDecision ==
    /\ RenderingFaithful
    /\ Reported =>
           \A i \in DOMAIN result.attrs.final_state.items :
               (InitialValue(i) # FinalValue(i)) => result.attrs.changed = BoolV(TRUE)

\* C16: the marker is "+" for success and changed, the dot for success and
\* not changed, "!" for a failure; for a success the "+" is shown iff some
\* field is rendered as a change.
C16_MarkerFollowsFields ==
    Reported =>
        /\ Contains(stdout[1], "+") <=>
               (Truthy(result.attrs.success) /\ Truthy(result.attrs.changed))
        /\ Contains(stdout[1], Dot) <=>
               (Truthy(result.attrs.success) /\ ~Truthy(result.attrs.changed))
        /\ Contains(stdout[1], "!") <=> ~Truthy(result.attrs.success)
        /\ Truthy(result.attrs.success) =>
               (Contains(stdout[1], "+") <=>
                    \E i \in DOMAIN result.attrs.final_state.items :
                        Contains(Fragment(i), " " \o Arrow \o " "))

\* C17: the step that runs finalize leaves initial_state_dict,
\* final_state_dict and result, with every field of the result, as they
\* were.
C17_FinalizeChangesNothing ==
    [][pc = "leaving" => UNCHANGED <<initial_state_dict, final_state_dict, result>>]_vars

\* C17 witness: finalize printed the report of a changed long value and
\* raised TransactionError
C17_Witness ==
    /\ pc = "exited" /\ outcome = "TransactionError" /\ carried = result
    /\ \E i \in DOMAIN result.attrs.final_state.items :
           Len(Str(FinalValue(i))) > DisplayLen

\* C18: every keyword passed to the completing call is an attribute of the
\* result, with the value passed.
C18_ExtrasMerged ==
    result # NoneV =>
        \A n \in DOMAIN completedBy.store :
            n \in DOMAIN result.attrs /\ result.attrs[n] = completedBy.store[n]

\* C19: when the body ended with an error, an error leaves the scope: the
\* error of finalize if it raised, the body's error otherwise; the scope is
\* left without error only if the body ended normally and finalize returned.
C19_NoErrorSwallowed ==
    pc = "exited" =>
        /\ bodyExc # "none" => scopeExc # "none"
        /\ outcome # "ok" => scopeExc = outcome
        /\ (outcome = "ok" /\ bodyExc # "none") => scopeExc = bodyExc
        /\ scopeExc = "none" => (bodyExc = "none" /\ outcome = "ok")

\* C19 witness: the body raised after success() and finalize passed, and
\* the body's error left the scope
C19_Witness ==
    /\ pc = "exited" /\ completedBy.op = "success" /\ outcome = "ok"
    /\ bodyExc = "RemoteExecError" /\ scopeExc = "RemoteExecError"

AddOps == {"add_group", "add_host", "add_task", "add_vault"}

\* C20: no script is run on a host while registrations are accepted; an
\* add_* call made when they are no longer accepted raises LogicError; and
\* once accept_registrations is False it stays False and the four
\* registries stay as they are.
C20_RegistrationOneWay ==
    /\ [](accept_registrations => ran = <<>>)
    /\ []((mlast.op \in AddOps /\ mlast.closed) => mlast.raised = "LogicError")
    /\ [][~accept_registrations =>
              /\ ~accept_registrations'
              /\ UNCHANGED <<groups, hosts, tasks, vaults>>]_vars

\* C20 witness: a script running on a host called add_task for a task that
\* is not registered, and LogicError was raised
C20_Witness ==
    /\ mpc = "inscript" /\ ran # <<>> /\ ~accept_registrations
    /\ tasks = {}
    /\ mlast.op = "add_task" /\ mlast.closed /\ mlast.raised = "LogicError"

\* the names --hosts asks for (every registered host when it is not given)
SelectedNames == Requested(args, hosts)

\* is one of the names not a registered host
UnknownName == \E i \in DOMAIN SelectedNames : SelectedNames[i] \notin hosts

\* has main passed the check of the host selection
SelectionChecked ==
    \/ mpc \in {"running", "inscript"}
    \/ mpc = "done" /\ ~accept_registrations /\ args.edit_vault = NoneV

\* the number of times main has entered the Context of host h: the number
\* of times the first of the scripts was started on it
HostRuns(h) ==
    Cardinality({i \in DOMAIN ran : ran[i][1] = h /\ ran[i][2] = Split(args.scripts)[1]})

C21_WitnessRepeated ==
    /\ mpc = "done" /\ mainError = "none" /\ args.hosts = StrV("h1,h1")
    /\ args.scripts = "run,check"
    /\ ran = <<<<"h1", "run">>, <<"h1", "check">>>>

\* the runs main makes when nothing raises: every script on the first of
\* the selected hosts in sorted order, then every script on the next
PlannedRuns == Runs(SortedSet(SelectedNames), Split(args.scripts))

\* C22: the scripts are started one after another in the sorted order of
\* the selected hosts; a TransactionError that left a transaction of a
\* script ends main at once; and from then on no script and no transaction
\* is started, neither on that host nor on a host ordered after it.
C22_FailedTransactionEndsRun ==
    /\ []((SelectionChecked /\ ~UnknownName) => ran \o todo = PlannedRuns)
    /\ [](mainError = "TransactionError" =>
              /\ mpc = "done"
              /\ ran # <<>> /\ txs # <<>> /\ txs[Len(txs)] = ran[Len(ran)])
    /\ [][mainError = "TransactionError" => UNCHANGED <<mpc, ran, txs, todo, mainError>>]_vars

\* C22 witness: --hosts h2,h1 --scripts run,check: the transaction of the
\* first script on h1 failed; the second script on h1 and both scripts on h2
\* were never started
C22_Witness ==
    /\ mpc = "done" /\ mainError = "TransactionError"
    /\ args.hosts = StrV("h2,h1") /\ args.scripts = "run,check"
    /\ ran = <<<<"h1", "run">>>> /\ txs = <<<<"h1", "run">>>>
    /\ todo = <<<<"h1", "check">>, <<"h2", "run">>, <<"h2", "check">>>>

====
